---- MODULE Spec2Model ----
(***************************************************************************)
(* The session memory store and the chat handler of the medical chatbot.   *)
(*                                                                         *)
(* The repository holds two Flask programs with the same store:            *)
(*   app.py    GET /, POST /get; a fixed cookie-signing key, so a browser  *)
(*             may present a session id signed before the process started  *)
(*             (its id is then not registered in session_memories); the    *)
(*             components may have failed to initialise.                   *)
(*   trial.py  GET /, POST /get, POST /clear_memory; the signing key is    *)
(*             random per process, so every valid session id was issued    *)
(*             by GET / of this process.                                   *)
(* The variable program fixes which of the two is running.                 *)
(*                                                                         *)
(* Requests are served by threads: a handler is a sequence of steps, one   *)
(* step per access to the shared dictionary or to a shared memory object.  *)
(* Each call into langchain (load_memory_variables, rag_chain.invoke,      *)
(* save_context, clear) is one step.                                       *)
(***************************************************************************)
EXTENDS Integers, Sequences, FiniteSets, TLC

VARIABLES
    program,          \* "app" or "trial": the program that is running
    components,       \* chat_model and retriever are set (initialisation succeeded)
    cookies,          \* the session ids browsers hold in a validly signed cookie
    session_memories, \* the dictionary: session id -> memory object
    memories,         \* memory object -> its turns, <<input, output>> each
    req               \* request thread -> position and locals of its handler

vars == <<program, components, cookies, session_memories, memories, req>>

----------------------------------------------------------------------------
(* Bounds and input sets *)

\* The turns all memory objects together may hold (the store itself has no
\* capacity bound).
MaxTurns == 2

Reqs == {"r1", "r2"}
Ids == {"s1", "s2"}
StaleIds == {"s1"}
NoSession == "none"
Msgs == {"m1", "m2"}
NoMsg == "nomsg"
Answers == {"a1"}
ObjNums == 1..Cardinality(Reqs)
NoMemory == <<"none", 0>>

----------------------------------------------------------------------------
(* Response texts *)

SessionExpired == IF program = "app"
                  THEN "Session expired. Please refresh the page."
                  ELSE "Please refresh the page to start a new session."

Initializing == "Service is initializing. Please try again in 30 seconds."

Trouble == IF program = "app"
           THEN "I'm having trouble processing your request. Please try again."
           ELSE "I'm having trouble processing your request."

ChatPage == "chat.html"
MemoryCleared == "Memory cleared!"
NoActiveSession == "No active session."

Fallbacks == {SessionExpired, Initializing, Trouble}

----------------------------------------------------------------------------
(* Helpers *)

Idle == [pc |-> "idle", cookie |-> NoSession, sid |-> NoSession,
         msg |-> NoMsg, memory |-> NoMemory,
         chat_history |-> <<>>, shared |-> FALSE, read_len |-> 0,
         prompt |-> <<>>, answer |-> "", response |-> ""]

InFlight(r) == req[r].pc \notin {"idle", "done"}

Registered(s) == s \in DOMAIN session_memories

\* The turns of the history registered for session s.
History(s) == IF Registered(s) THEN memories[session_memories[s]] ELSE <<>>

\* ConversationBufferMemory(...): a new, empty memory object for session s.
NewMemory(s) == <<s, CHOOSE n \in ObjNums : <<s, n>> \notin DOMAIN memories>>

\* Objects nobody refers to any more are freed.
Collect(sm, mems, rq) ==
    LET refs == {sm[s] : s \in DOMAIN sm} \cup {rq[r].memory : r \in Reqs}
    IN  [o \in DOMAIN mems \cap refs |-> mems[o]]

\* The list of turns a request holds after load_memory_variables.
View(r) == IF req[r].shared THEN memories[req[r].memory] ELSE req[r].chat_history

\* The ids no browser holds and no request carries.
UnusedIds == Ids \ (cookies \cup DOMAIN session_memories
                    \cup {req[r].sid : r \in Reqs})

\* str(uuid.uuid4()): a new id. Ids are opaque and interchangeable, so the
\* new one is taken to be the first unused one.
FreshIds == IF "s1" \in UnusedIds THEN {"s1"} ELSE UnusedIds

\* The number of turns held by all memory objects together.
RECURSIVE TurnsIn(_)
TurnsIn(objs) == IF objs = {} THEN 0
                 ELSE LET o == CHOOSE x \in objs : TRUE
                      IN  Len(memories[o]) + TurnsIn(objs \ {o})
StoredTurns == TurnsIn(DOMAIN memories)

\* A request (cookie c, form field m) that has returned text, its session
\* now holding id s.
Finished(c, s, m, text) ==
    [Idle EXCEPT !.pc = "done", !.cookie = c, !.sid = s, !.msg = m,
                 !.response = text]

\* The server hands a new request to a free thread; the threads are
\* interchangeable, so it is always taken to be the first free one.
Free(r) == /\ req[r].pc = "idle"
           /\ (r = "r2" => req["r1"].pc # "idle")

----------------------------------------------------------------------------
Init ==
    /\ program \in {"app", "trial"}
    /\ components \in (IF program = "app" THEN BOOLEAN ELSE {TRUE})
    /\ cookies = (IF program = "app" THEN StaleIds ELSE {})
    /\ session_memories = <<>>
    /\ memories = <<>>
    /\ req = [r \in Reqs |-> Idle]

----------------------------------------------------------------------------
(* get_or_create_memory, one step per access to the dictionary *)

\* Variant: the membership test always finds the id missing.
AlwaysAbsent(s) == TRUE

\* "session_id not in session_memories"
Absent(s) == s \notin DOMAIN session_memories

\* "session_memories[session_id] = ConversationBufferMemory(...)"
Register(s, o) == (s :> o) @@ session_memories

\* Variant: the memory returned is one registered under another id.
LookupOther(s) ==
    session_memories[CHOOSE t \in DOMAIN session_memories :
                        t # s \/ DOMAIN session_memories = {s}]

\* "return session_memories[session_id]"
Lookup(s) == session_memories[s]

----------------------------------------------------------------------------
(* langchain memory calls *)

\* Variants of the save: input and output exchanged; the turn put in front;
\* the turn written over the turns already there.
SaveContextSwapped(o, m, a) == [memories EXCEPT ![o] = Append(@, <<a, m>>)]
SaveContextFront(o, m, a) == [memories EXCEPT ![o] = <<<<m, a>>>> \o @]
SaveContextOverwrite(o, m, a) == [memories EXCEPT ![o] = <<<<m, a>>>>]

\* memory.save_context({"input": msg}, {"output": answer})
SaveContext(o, m, a) == [memories EXCEPT ![o] = Append(@, <<m, a>>)]

\* Variants of the clear: only the last turn is dropped; every memory of
\* the store is emptied.
ClearContextLast(o) == [memories EXCEPT ![o] = SubSeq(@, 1, Len(@) - 1)]
ClearContextAll(o) == [x \in DOMAIN memories |-> <<>>]

\* session_memories[session_id].clear()
ClearContext(o) == [memories EXCEPT ![o] = <<>>]

\* The texts a handler returns.
ChatReturn(answer) == answer
ClearReturn(found) == IF found THEN MemoryCleared ELSE NoActiveSession

\* Variant: the form field is read before the session id is looked at.
EarlyReplyMsgFirst(c, m) ==
    IF m = NoMsg THEN Trouble
    ELSE IF c = NoSession THEN SessionExpired
    ELSE IF program = "app" /\ ~components THEN Initializing
    ELSE ""

\* The reply of POST /get before it touches the store, "" when it goes on.
EarlyReply(c, m) ==
    IF c = NoSession THEN SessionExpired
    ELSE IF m = NoMsg THEN Trouble
    ELSE IF program = "app" /\ ~components THEN Initializing
    ELSE ""

\* session.get('session_id') of GET /: the cookie's id, or a new uuid4.
IndexSessionIds(c) == IF c = NoSession THEN FreshIds ELSE {c}

----------------------------------------------------------------------------
(* GET / *)

\* The session id is settled and get_or_create_memory tests the dictionary.
\* The browser has the cookie of a new session once the page is returned.
IndexStart(r, c) ==
    /\ Free(r)
    /\ \E s \in IndexSessionIds(c) :
         IF Absent(s)
         THEN /\ req' = [req EXCEPT ![r] =
                            [Idle EXCEPT !.pc = "index_assign", !.cookie = c,
                                         !.sid = s]]
              /\ UNCHANGED cookies
         ELSE /\ req' = [req EXCEPT ![r] = Finished(c, s, NoMsg, ChatPage)]
              /\ cookies' = cookies \cup {s}
    /\ UNCHANGED <<program, components, session_memories, memories>>

IndexAssign(r) ==
    /\ req[r].pc = "index_assign"
    /\ LET s == req[r].sid
           o == NewMemory(s)
       IN  /\ session_memories' = Register(s, o)
           /\ req' = [req EXCEPT ![r] = Finished(req[r].cookie, s, NoMsg, ChatPage)]
           /\ memories' = Collect(session_memories', (o :> <<>>) @@ memories, req')
           /\ cookies' = cookies \cup {s}
    /\ UNCHANGED <<program, components>>

----------------------------------------------------------------------------
(* POST /get *)

\* The early returns, then the membership test of get_or_create_memory.
ChatStart(r, c, m) ==
    /\ Free(r)
    /\ req' = [req EXCEPT ![r] =
         IF EarlyReply(c, m) # "" THEN Finished(c, c, m, EarlyReply(c, m))
         ELSE [Idle EXCEPT !.pc = IF Absent(c) THEN "chat_assign" ELSE "chat_read",
                           !.cookie = c, !.sid = c, !.msg = m]]
    /\ UNCHANGED <<program, components, cookies, session_memories, memories>>

ChatAssign(r) ==
    /\ req[r].pc = "chat_assign"
    /\ LET s == req[r].sid
           o == NewMemory(s)
       IN  /\ session_memories' = Register(s, o)
           /\ req' = [req EXCEPT ![r].pc = "chat_read"]
           /\ memories' = Collect(session_memories', (o :> <<>>) @@ memories, req')
    /\ UNCHANGED <<program, components, cookies>>

\* "return session_memories[session_id]" and load_memory_variables. The
\* handler keeps the object returned as chat_history without copying it.
\* Whether that object is the memory's own message list (shared: a later
\* save_context into the memory shows in it) or a private copy is decided
\* inside langchain; both are allowed. read_len is the number of turns it
\* holds at this read.
ChatRead(r) ==
    /\ req[r].pc = "chat_read"
    /\ LET o == Lookup(req[r].sid)
       IN  \E live \in BOOLEAN :
             req' = [req EXCEPT ![r].pc = "chat_invoke",
                                ![r].memory = o,
                                ![r].shared = live,
                                ![r].chat_history = IF live THEN <<>> ELSE memories[o],
                                ![r].read_len = Len(memories[o])]
    /\ UNCHANGED <<program, components, cookies, session_memories, memories>>

\* rag_chain.invoke returns: the prompt is formatted from chat_history as
\* it is now, and the model answers.
ChatInvoke(r) ==
    /\ req[r].pc = "chat_invoke"
    /\ \E a \in Answers :
         req' = [req EXCEPT ![r].pc = "chat_save",
                            ![r].prompt = <<View(r), req[r].msg>>,
                            ![r].answer = a,
                            ![r].chat_history = <<>>,
                            ![r].shared = FALSE]
    /\ UNCHANGED <<program, components, cookies, session_memories, memories>>

\* rag_chain.invoke raises (retrieval or generation fails): except branch.
ChatInvokeFails(r) ==
    /\ req[r].pc = "chat_invoke"
    /\ req' = [req EXCEPT ![r] =
                 Finished(req[r].cookie, req[r].sid, req[r].msg, Trouble)]
    /\ memories' = Collect(session_memories, memories, req')
    /\ UNCHANGED <<program, components, cookies, session_memories>>

\* save_context appends the turn to the memory the request holds, which
\* need not be the registered one any more; the answer is returned.
ChatSave(r) ==
    /\ req[r].pc = "chat_save"
    /\ StoredTurns < MaxTurns
    /\ req' = [req EXCEPT ![r] =
                 Finished(req[r].cookie, req[r].sid, req[r].msg,
                          ChatReturn(req[r].answer))]
    /\ memories' = Collect(session_memories,
                           SaveContext(req[r].memory, req[r].msg, req[r].answer),
                           req')
    /\ UNCHANGED <<program, components, cookies, session_memories>>

----------------------------------------------------------------------------
(* POST /clear_memory (trial.py) *)

\* clear() gives the memory a new empty list; a request that shares the old
\* list keeps it with the turns it had.
ClearMemory(r, c) ==
    /\ program = "trial"
    /\ Free(r)
    /\ LET found == c # NoSession /\ ~Absent(c)
       IN  IF found
           THEN LET o == Lookup(c)
                IN  /\ memories' = ClearContext(o)
                    /\ req' = [q \in Reqs |->
                         IF q = r THEN Finished(c, c, NoMsg, ClearReturn(TRUE))
                         ELSE IF req[q].shared /\ req[q].memory = o
                         THEN [req[q] EXCEPT !.shared = FALSE,
                                             !.chat_history = memories[o]]
                         ELSE req[q]]
           ELSE /\ req' = [req EXCEPT ![r] = Finished(c, c, NoMsg, ClearReturn(FALSE))]
                /\ UNCHANGED memories
    /\ UNCHANGED <<program, components, cookies, session_memories>>

----------------------------------------------------------------------------
\* The response has been delivered; the thread is free for the next request.
Finish(r) ==
    /\ req[r].pc = "done"
    /\ req' = [req EXCEPT ![r] = Idle]
    /\ UNCHANGED <<program, components, cookies, session_memories, memories>>

Cookies == cookies \cup {NoSession}

Next ==
    \E r \in Reqs :
        \/ \E c \in Cookies : IndexStart(r, c)
        \/ IndexAssign(r)
        \/ \E c \in Cookies, m \in Msgs \cup {NoMsg} : ChatStart(r, c, m)
        \/ ChatAssign(r)
        \/ ChatRead(r)
        \/ ChatInvoke(r)
        \/ ChatInvokeFails(r)
        \/ ChatSave(r)
        \/ \E c \in Cookies : ClearMemory(r, c)
        \/ Finish(r)

Spec == Init /\ [][Next]_vars

----------------------------------------------------------------------------
(* Requests of one session served one after the other: a request for a     *)
(* session starts only when no other request for it is being served.       *)

Quiet(c) == \A q \in Reqs : InFlight(q) => req[q].sid # c

NextSerial ==
    \E r \in Reqs :
        \/ \E c \in Cookies : Quiet(c) /\ IndexStart(r, c)
        \/ IndexAssign(r)
        \/ \E c \in Cookies, m \in Msgs \cup {NoMsg} : Quiet(c) /\ ChatStart(r, c, m)
        \/ ChatAssign(r)
        \/ ChatRead(r)
        \/ ChatInvoke(r)
        \/ ChatInvokeFails(r)
        \/ ChatSave(r)
        \/ \E c \in Cookies : Quiet(c) /\ ClearMemory(r, c)
        \/ Finish(r)

SpecSerial == Init /\ [][NextSerial]_vars

----------------------------------------------------------------------------
(* Vocabulary of the properties *)

IsPrefix(a, b) == Len(a) <= Len(b) /\ SubSeq(b, 1, Len(a)) = a

\* Request r takes a step of its handler.
Moved(r) == req'[r].pc # req[r].pc

Step(r, from, to) == req[r].pc = from /\ req'[r].pc = to

HistoriesUnchanged == \A s \in Ids : History(s)' = History(s)

PreSave == {"chat_assign", "chat_read", "chat_invoke"}

Turn(r) == <<req[r].msg, req[r].answer>>

\* Session ids issued by GET / of the running process.
IssuedHere == IF program = "app" THEN cookies \ StaleIds ELSE cookies

ClearReplies == {MemoryCleared, NoActiveSession}

----------------------------------------------------------------------------
\* C1: a chat request changes no session's history before its save: each
\* step it takes up to and including a failing one leaves the history of
\* every session as it was, and a request that ends without saving answers
\* with one of the fallback messages.
C1_FailedChatKeepsHistory ==
    [][\A r \in Reqs :
         /\ (Moved(r) /\ req[r].pc \in PreSave) => HistoriesUnchanged
         /\ (Moved(r) /\ req'[r].pc = "done" /\ req'[r].response \in Fallbacks)
                => HistoriesUnchanged
         /\ (req[r].pc \in PreSave /\ req'[r].pc = "done")
                => req'[r].response \in Fallbacks]_vars

----------------------------------------------------------------------------
\* C6: get_or_create_memory is first-writer-wins: once a history is
\* registered for a session it stays the registered one, every request of
\* the session holds that history, and the turn a request saves is in the
\* session's registered history after the save.
C6_FirstWriterWins ==
    [][/\ \A s \in DOMAIN session_memories :
             session_memories'[s] = session_memories[s]
       /\ \A r \in Reqs :
             /\ req'[r].memory # NoMemory
                   => req'[r].memory = session_memories'[req'[r].sid]
             /\ Step(r, "chat_save", "done")
                   => \E i \in 1..Len(History(req[r].sid)') :
                         History(req[r].sid)'[i] = Turn(r)]_vars

----------------------------------------------------------------------------
\* C5 as stated: across every operation the previous content of a session's
\* history is a prefix of its new content.
C5_HistoryOnlyGrows ==
    [][\A s \in Ids : IsPrefix(History(s), History(s)')]_vars

\* C5 as amended: a session's history either keeps its previous content as
\* a prefix, or becomes empty, and it becomes empty only by a clear of that
\* session or by get_or_create_memory registering a new memory for it.
C5_HistoryGrowsOrIsEmptied ==
    [][\A s \in Ids :
         \/ IsPrefix(History(s), History(s)')
         \/ /\ History(s)' = <<>>
            /\ \E r \in Reqs :
                 \/ /\ Step(r, "idle", "done")
                    /\ req'[r].response = MemoryCleared
                    /\ req'[r].cookie = s
                 \/ /\ Moved(r)
                    /\ req[r].pc \in {"index_assign", "chat_assign"}
                    /\ req[r].sid = s]_vars

\* A request loaded a history of some turns, and the history registered for
\* its session, still the same memory, has been emptied since.
C5_Witness ==
    \E r \in Reqs :
        /\ req[r].pc = "chat_invoke"
        /\ req[r].read_len > 0
        /\ req[r].memory = session_memories[req[r].sid]
        /\ History(req[r].sid) = <<>>

----------------------------------------------------------------------------
\* C2: GET / without a cookie creates a session whose history is empty, and
\* the first successful exchange on a session created by GET / leaves
\* exactly one turn in its history: the request's input with the answer
\* that is returned to the caller.
C2_FreshSessionFirstExchange ==
    [][\A r \in Reqs :
         /\ (/\ Moved(r)
             /\ req'[r].pc = "done"
             /\ req'[r].response = ChatPage
             /\ req'[r].cookie = NoSession)
               => \E s \in Ids \ cookies :
                     /\ req'[r].sid = s
                     /\ s \in DOMAIN session_memories'
                     /\ History(s)' = <<>>
         /\ (/\ Step(r, "chat_save", "done")
             /\ req[r].sid \in IssuedHere
             /\ History(req[r].sid) = <<>>)
               => /\ History(req[r].sid)' = <<Turn(r)>>
                  /\ req'[r].response = req[r].answer]_vars

\* A session created by GET / holds exactly the turn of the exchange that
\* has just returned.
C2_Witness ==
    \E r \in Reqs :
        /\ req[r].pc = "done"
        /\ req[r].response \in Answers
        /\ req[r].sid \in IssuedHere
        /\ History(req[r].sid) = << <<req[r].msg, req[r].response>> >>

----------------------------------------------------------------------------
\* C3 (requests of a session served one after the other, SpecSerial): the
\* prompt of an exchange is built from exactly the turns recorded so far,
\* its save appends its turn behind them and returns the saved answer, it
\* touches no other session, and nothing but a save or a clear changes a
\* history; so n exchanges leave n turns in call order.
C3_SequentialExchangesInOrder ==
    [][\A r \in Reqs :
         /\ Step(r, "chat_invoke", "chat_save")
               => req'[r].prompt = <<History(req[r].sid), req[r].msg>>
         /\ Step(r, "chat_save", "done")
               => /\ History(req[r].sid)' = Append(History(req[r].sid), Turn(r))
                  /\ req'[r].response = req[r].answer
                  /\ \A t \in Ids \ {req[r].sid} : History(t)' = History(t)
         /\ (/\ Moved(r)
             /\ ~Step(r, "chat_save", "done")
             /\ ~(Step(r, "idle", "done") /\ req'[r].response = MemoryCleared))
               => HistoriesUnchanged]_vars

\* Two exchanges with different inputs have been recorded on one session.
C3_Witness ==
    \E s \in Ids :
        /\ Len(History(s)) = 2
        /\ History(s)[1][1] # History(s)[2][1]

----------------------------------------------------------------------------
\* C4: POST /clear_memory with the id of a registered session empties that
\* session's history, keeps every registration as it is and leaves every
\* other history unchanged; with no id or an unregistered id it changes
\* nothing and answers "No active session.".
C4_ClearEmptiesOnlyItsSession ==
    [][\A r \in Reqs :
         (Step(r, "idle", "done") /\ req'[r].response \in ClearReplies)
            => \E c \in Ids \cup {NoSession} :
                 /\ req'[r].cookie = c
                 /\ IF c # NoSession /\ Registered(c)
                    THEN /\ req'[r].response = MemoryCleared
                         /\ History(c)' = <<>>
                         /\ session_memories' = session_memories
                         /\ \A t \in Ids \ {c} : History(t)' = History(t)
                    ELSE /\ req'[r].response = NoActiveSession
                         /\ UNCHANGED <<session_memories, memories>>]_vars

\* A clear has emptied its session while another session keeps its turns.
C4_Witness ==
    \E r \in Reqs :
        /\ req[r].pc = "done"
        /\ req[r].response = MemoryCleared
        /\ Registered(req[r].cookie)
        /\ History(req[r].cookie) = <<>>
        /\ \E t \in Ids \ {req[r].cookie} : History(t) # <<>>

----------------------------------------------------------------------------
\* C7: a step of a request touches only its own session: the registration
\* and the history of every other session, and the requests of every other
\* session, stay as they are, and the memory a request holds is always one
\* created for its own session id.
C7_SessionsIsolated ==
    [][\A r \in Reqs :
         /\ Moved(r) =>
              \E a \in Ids \cup {NoSession} :
                /\ a = (IF req[r].pc = "idle" THEN req'[r].sid ELSE req[r].sid)
                /\ \A t \in Ids \ {a} :
                     /\ Registered(t) <=> Registered(t)'
                     /\ Registered(t) => session_memories'[t] = session_memories[t]
                     /\ History(t)' = History(t)
                     /\ \A q \in Reqs : req[q].sid = t => req'[q] = req[q]
         /\ req'[r].memory # NoMemory => req'[r].memory[1] = req'[r].sid]_vars

\* Two exchanges on different sessions are under way at once, one of the
\* sessions already holding a turn.
C7_Witness ==
    /\ req["r1"].pc = "chat_save"
    /\ req["r2"].pc = "chat_save"
    /\ req["r1"].sid # req["r2"].sid
    /\ History(req["r1"].sid) # <<>>

----------------------------------------------------------------------------
\* C8: POST /get without a session id answers at once with the
\* session-expired text, whatever the form holds and whether or not the
\* components are initialised; it registers nothing, changes no history and
\* never reaches the retrieval or generation call.
C8_NoSessionRejected ==
    [][\A r \in Reqs :
         /\ (/\ Moved(r)
             /\ req[r].pc = "idle"
             /\ req'[r].cookie = NoSession
             /\ req'[r].pc # "index_assign"
             /\ req'[r].response \notin ClearReplies \cup {ChatPage})
               => /\ req'[r].pc = "done"
                  /\ req'[r].response = SessionExpired
                  /\ UNCHANGED <<session_memories, memories>>
         /\ req'[r].pc \in PreSave \cup {"chat_save"}
               => req'[r].sid # NoSession]_vars

\* A chat request without session id and without 'msg', sent while the
\* components are not initialised, got the session-expired text.
C8_Witness ==
    \E r \in Reqs :
        /\ req[r].pc = "done"
        /\ req[r].cookie = NoSession
        /\ req[r].msg = NoMsg
        /\ req[r].response = SessionExpired
        /\ ~components

----------------------------------------------------------------------------
\* C9: get_or_create_memory for a registered session id registers nothing,
\* changes no history and returns the registered memory with all its
\* turns; GET / keeps the session id of the cookie, and no id a browser
\* holds is ever dropped.
C9_GetOrCreateKeepsExisting ==
    [][\A r \in Reqs :
         /\ (/\ Moved(r)
             /\ req[r].pc = "idle"
             /\ req'[r].response \notin ClearReplies
             /\ req'[r].sid \in DOMAIN session_memories)
               => /\ req'[r].pc \notin {"index_assign", "chat_assign"}
                  /\ UNCHANGED <<session_memories, memories>>
         /\ Step(r, "chat_read", "chat_invoke")
               => /\ req'[r].memory = session_memories[req[r].sid]
                  /\ View(r)' = History(req[r].sid)
                  /\ UNCHANGED <<session_memories, memories>>
         /\ (Moved(r) /\ req[r].pc = "idle" /\ req'[r].cookie # NoSession)
               => req'[r].sid = req'[r].cookie
         /\ cookies \subseteq cookies']_vars

\* GET / with the cookie of a session that holds turns has returned, the
\* session id and the turns still there.
C9_Witness ==
    \E r \in Reqs :
        /\ req[r].pc = "done"
        /\ req[r].response = ChatPage
        /\ req[r].cookie # NoSession
        /\ req[r].sid = req[r].cookie
        /\ History(req[r].sid) # <<>>

----------------------------------------------------------------------------
====
